---- MODULE Spec2Model ----
(***************************************************************************)
(* Chunked game-record log with archival (observer-consumer/src/fs.rs) and *)
(* the shard/game progress cache (observer-consumer/src/cache.rs).         *)
(*                                                                         *)
(* The filesystem part models one game directory <DATA_FOLDER>/<game_id>/  *)
(* with its files chunk_<n>, _chunk and archive.gz, one GameDataWriter at  *)
(* a time stepping through its await points, and the two readers as        *)
(* operators over the directory contents.                                  *)
(***************************************************************************)
EXTENDS Integers, Sequences, FiniteSets, TLC

\* ------------------------------------------------------------------------
\* Bounds of the model
\* ------------------------------------------------------------------------
\* number of write_record / write_bytes / sync_all / build_archive calls
MaxOps == 3
\* number of times a writer is dropped (process crash or drop of the value)
MaxCrashes == 1
MaxFails == 1
\* number of tasks that share the cache connection
NumTasks == 2

\* ------------------------------------------------------------------------
\* Program constants
\* ------------------------------------------------------------------------
MAX_CHUNK_SIZE == 4 * 1024
SIGNATURE == <<102, 108, 111, 1>>
MIN_SIZE == 8

\* game ids the model draws from (i32::MAX is the id of test_fs)
GameIds == {2147483647, -2}

\* ------------------------------------------------------------------------
\* Little-endian integer conversions
\* ------------------------------------------------------------------------
\* i32::to_le_bytes / u32::to_le_bytes: \div is floor division and % is the
\* non-negative remainder, so a negative i32 gives its two's complement.
to_le_bytes(n) ==
  <<n % 256, (n \div 256) % 256, (n \div 65536) % 256, (n \div 16777216) % 256>>

\* i32::from_le_bytes
i32_from_le_bytes(b) ==
  b[1] + 256 * b[2] + 65536 * b[3]
    + 16777216 * (IF b[4] >= 128 THEN b[4] - 256 ELSE b[4])

\* u32::from_le_bytes (the model only draws values below 2^31)
u32_from_le_bytes(b) ==
  b[1] + 256 * b[2] + 65536 * b[3] + 16777216 * b[4]

\* ------------------------------------------------------------------------
\* Record codec (flo_observer::record::GameRecordData, length-framed)
\* ------------------------------------------------------------------------
RecordTypeIds == {1, 2, 3}
FRAME_SIZE == 3

Record(t, n) == [type |-> t, data |-> [i \in 1..n |-> (17 * t + i) % 256]]

\* the records the model writes, by index: encoded sizes 3, 2048 and 4096
RecordIds == {1, 2, 3}
RecordTable == <<Record(1, 0), Record(2, 2045), Record(3, 4093)>>
Rec(i) == RecordTable[i]

encode_len(r) == FRAME_SIZE + Len(r.data)

encode(r) ==
  <<r.type, Len(r.data) % 256, Len(r.data) \div 256>> \o r.data

\* a Cursor<Vec<u8>>: the bytes and the number of bytes consumed
Cursor(bytes) == [data |-> bytes, pos |-> 0]
has_remaining(c) == c.pos < Len(c.data)
remaining(c) == Len(c.data) - c.pos

\* GameRecordData::decode: consumes exactly one record or fails
decode(c) ==
  IF remaining(c) < FRAME_SIZE
  THEN [ok |-> FALSE, err |-> "RecordDecode", cursor |-> c]
  ELSE LET t == c.data[c.pos + 1]
           n == c.data[c.pos + 2] + 256 * c.data[c.pos + 3]
       IN IF t \notin RecordTypeIds \/ remaining(c) - FRAME_SIZE < n
          THEN [ok |-> FALSE, err |-> "RecordDecode", cursor |-> c]
          ELSE [ok |-> TRUE,
                record |-> [type |-> t,
                            data |-> SubSeq(c.data, c.pos + FRAME_SIZE + 1,
                                            c.pos + FRAME_SIZE + n)],
                cursor |-> [c EXCEPT !.pos = c.pos + FRAME_SIZE + n]]

\* the encodings of the records the model writes
EncodedTable == [i \in RecordIds |-> encode(Rec(i))]

RECURSIVE EncodeAll(_)
\* the bytes of a sequence of record indices, in order
EncodeAll(ids) ==
  IF ids = <<>> THEN <<>> ELSE EncodedTable[Head(ids)] \o EncodeAll(Tail(ids))

\* the records of a sequence of record indices
RecsOf(ids) == [i \in 1..Len(ids) |-> Rec(ids[i])]

\* ------------------------------------------------------------------------
\* Archive header codec and gzip stream
\* ------------------------------------------------------------------------
FileHeader_new(g) == [signature |-> SIGNATURE, game_id |-> g]

FileHeader_bytes(h) == h.signature \o to_le_bytes(h.game_id)

\* FileHeader::decode with #[bin(eq = FileHeader::SIGNATURE)]
FileHeader_decode(b) ==
  IF SubSeq(b, 1, 4) # SIGNATURE
  THEN [ok |-> FALSE, err |-> "DecodeArchiveHeader"]
  ELSE [ok |-> TRUE,
        header |-> [signature |-> SubSeq(b, 1, 4),
                    game_id |-> i32_from_le_bytes(SubSeq(b, 5, 8))]]

GZ_MAGIC == <<31, 139, 8>>

\* the gzip member of a plaintext: magic, the payload, the ISIZE trailer
GzEncode(plain) ==
  GZ_MAGIC \o plain \o <<Len(plain) % 256, (Len(plain) \div 256) % 256>>

\* GzDecoder: the plaintext of a gzip member, or an I/O error
GzDecode(bytes) ==
  LET n == Len(bytes) - 5 IN
  IF n < 0 \/ SubSeq(bytes, 1, 3) # GZ_MAGIC
       \/ bytes[Len(bytes) - 1] + 256 * bytes[Len(bytes)] # n % 65536
  THEN [ok |-> FALSE, err |-> "Io", plain |-> <<>>]
  ELSE [ok |-> TRUE, plain |-> SubSeq(bytes, 4, Len(bytes) - 2)]

\* ------------------------------------------------------------------------
\* State
\* ------------------------------------------------------------------------
VARIABLES
  gid,         \* the game whose directory is modelled
  dir_exists,  \* <DATA_FOLDER>/<gid>/ exists
  chunks,      \* the promoted chunk files: chunk number -> bytes
  tmp_chunk,   \* the file _chunk: [exists, data]
  archive,     \* the file archive.gz: [exists, data]
  wpc,         \* position of the writer ("none": no writer)
  game_id,     \* GameDataWriter.game_id
  chunk_id,    \* GameDataWriter.chunk_id
  chunk_buf,   \* GameDataWriter.chunk_buf
  chunk_file,  \* GameDataWriter.chunk_file is Some
  ctx,         \* the operation in progress and the bytes it will append
  nops,        \* calls made so far
  ncrash,      \* drops so far
  origin,      \* history: how the current writer was obtained
  last,        \* history: the last call completed on the current writer
  written,     \* history: record indices accepted by the current writer
  drop_chunks, \* history: the promoted chunks at the last drop
  drop_archive,\* history: archive.gz at the last drop, if the writer had built it
  pre,         \* history: chunk_id, buffer and chunks when the promotion began
  fails,       \* history: the calls that failed on the current writer
  drop_fails,  \* history: the calls that had failed on the writer dropped last
  rstate,      \* the GameDataReaderRecords of the concurrent reader
  rout,        \* what the concurrent reader has yielded so far
  aret,        \* what the last GameDataArchiveReader::open returned
  game_set,    \* the set flo_observer:games: its members, as byte strings
  hashes,      \* the hashes of the store: key -> (field -> value)
  ret,         \* what the last cache read returned
  hist,        \* history: per game, the last add/remove and the set after it
  tpc,         \* per task, the cache call it is in the middle of
  shard_hist   \* history: per shard, the value of the last set_shard_finished_seq

sidevars == <<rstate, rout, aret>>

fsvars == <<gid, dir_exists, chunks, tmp_chunk, archive, wpc, game_id,
            chunk_id, chunk_buf, chunk_file, ctx, nops, ncrash, origin, last,
            written, drop_chunks, drop_archive, pre, fails, drop_fails,
            sidevars>>

cachevars == <<game_set, hashes, ret, hist, tpc, shard_hist>>

vars == <<fsvars, cachevars>>

NoFile == [exists |-> FALSE, data |-> <<>>]
File(bytes) == [exists |-> TRUE, data |-> bytes]
NoCtx == [op |-> "none", data |-> <<>>, recs |-> <<>>]
NoCall == [op |-> "none", ok |-> TRUE]
NoPre == [chunk_id |-> 0, chunk_buf |-> <<>>, chunks |-> <<>>]

None == [some |-> FALSE, v |-> 0]
Some(x) == [some |-> TRUE, v |-> x]

SetMax(S) == CHOOSE m \in S : \A x \in S : x <= m
SetMin(S) == CHOOSE m \in S : \A x \in S : m <= x

\* ------------------------------------------------------------------------
\* GameDataReader
\* ------------------------------------------------------------------------
\* the directory scan: max_chunk_id starts at 0 and is raised by every
\* chunk_<n> file; _chunk and archive.gz are skipped
max_chunk_id == SetMax({0} \cup DOMAIN chunks)

GameDataReader_open ==
  IF ~dir_exists
  THEN [ok |-> FALSE, err |-> "Io", next_chunk_id |-> 0]
  ELSE [ok |-> TRUE, next_chunk_id |-> max_chunk_id + 1]

GameDataReader_records(r) ==
  [inner |-> "Chunks", next_chunk_id |-> r.next_chunk_id,
   current_chunk |-> None, chunk_buf |-> Cursor(<<>>)]

last_chunk_id(rs) ==
  IF rs.inner = "Content" THEN 0 ELSE rs.next_chunk_id - 1

\* read_next_chunk: Ok(false) at the last chunk, else loads the next file
read_next_chunk(rs) ==
  IF rs.current_chunk = Some(last_chunk_id(rs))
  THEN [ok |-> TRUE, more |-> FALSE, rs |-> rs]
  ELSE LET id == IF rs.current_chunk.some THEN rs.current_chunk.v + 1 ELSE 0
       IN IF id \notin DOMAIN chunks
          THEN [ok |-> FALSE, more |-> FALSE, rs |-> rs]
          ELSE [ok |-> TRUE, more |-> TRUE,
                rs |-> [rs EXCEPT !.chunk_buf = Cursor(chunks[id]),
                                  !.current_chunk = Some(id)]]

\* GameDataReaderRecords::next
next(rs) ==
  LET rn == IF has_remaining(rs.chunk_buf)
            THEN [ok |-> TRUE, more |-> TRUE, rs |-> rs]
            ELSE read_next_chunk(rs)
  IN IF ~rn.ok
     THEN [ok |-> FALSE, err |-> "Io", some |-> FALSE, rs |-> rn.rs]
     ELSE IF ~rn.more
     THEN [ok |-> TRUE, err |-> "", some |-> FALSE, rs |-> rn.rs]
     ELSE LET d == decode(rn.rs.chunk_buf)
          IN IF ~d.ok
             THEN [ok |-> FALSE, err |-> d.err, some |-> FALSE, rs |-> rn.rs]
             ELSE [ok |-> TRUE, err |-> "", some |-> TRUE,
                   record |-> d.record,
                   rs |-> [rn.rs EXCEPT !.chunk_buf = d.cursor]]

RECURSIVE collect_from(_, _)
collect_from(rs, all) ==
  LET n == next(rs)
  IN IF ~n.ok THEN [ok |-> FALSE, err |-> n.err, records |-> <<>>]
     ELSE IF ~n.some THEN [ok |-> TRUE, err |-> "", records |-> all]
     ELSE collect_from(n.rs, Append(all, n.record))

\* GameDataReaderRecords::collect_vec
collect_vec(rs) == collect_from(rs, <<>>)

\* no reader is open
NoReader ==
  [inner |-> "None", next_chunk_id |-> 0, current_chunk |-> None,
   chunk_buf |-> Cursor(<<>>)]

\* the concurrent reader has yielded nothing and has not ended
NoOutput == [recs |-> <<>>, done |-> FALSE, ok |-> TRUE, err |-> ""]

\* GameDataArchiveReader::open has not been called
NoOpen == [op |-> "none", ok |-> TRUE, err |-> ""]

\* ------------------------------------------------------------------------
\* GameDataArchiveReader
\* ------------------------------------------------------------------------
GameDataArchiveReader_open(file) ==
  IF ~file.exists
  THEN [ok |-> FALSE, err |-> "Io"]
  ELSE LET gz == GzDecode(file.data)
       IN IF ~gz.ok \/ Len(gz.plain) < MIN_SIZE
          THEN [ok |-> FALSE, err |-> "Io"]
          ELSE LET h == FileHeader_decode(SubSeq(gz.plain, 1, MIN_SIZE))
               IN IF ~h.ok
                  THEN [ok |-> FALSE, err |-> h.err]
                  ELSE [ok |-> TRUE, err |-> "", header |-> h.header,
                        content |-> SubSeq(gz.plain, MIN_SIZE + 1,
                                           Len(gz.plain))]

GameDataArchiveReader_game_id(a) == a.header.game_id

GameDataArchiveReader_records(a) ==
  [inner |-> "Content", next_chunk_id |-> 0,
   current_chunk |-> Some(0), chunk_buf |-> Cursor(a.content)]

\* ------------------------------------------------------------------------
\* Progress cache: the key/value store and its commands
\* ------------------------------------------------------------------------
GAME_SET_KEY == "flo_observer:games"
GAME_HASH_PREFIX == "flo_observer:game"
GAME_HASH_SHARD_ID == "shard_id"
GAME_HASH_FINISHED_SEQ_ID == "finished_seq_id"

\* the shard ids and finished_seq_id values the model draws from
ShardIds == {"a", "shard"}
SeqIds == {456, 16777217}

\* format!("{}:{}", GAME_HASH_PREFIX, game_id)
game_hash_key(id) == <<GAME_HASH_PREFIX, id>>

\* the set member SADD is given for a game
sadd_member(id) == to_le_bytes(id)

\* the member in the other byte order
member_be(id) ==
  <<(id \div 16777216) % 256, (id \div 65536) % 256, (id \div 256) % 256,
    id % 256>>

\* the set member SREM is given for a game
srem_member(id) == to_le_bytes(id)

\* the finished_seq_id cut to its low 16 bits
seq_value_u16(v) == <<v % 256, (v \div 256) % 256, 0, 0>>

\* the field value HSET is given for a finished_seq_id
seq_value(v) == to_le_bytes(v)

\* HSET key field value: the hash is created when it does not exist
HSET(h, key, field, value) ==
  [k \in DOMAIN h \cup {key} |->
     IF k = key
     THEN [f \in (IF key \in DOMAIN h THEN DOMAIN h[key] ELSE {}) \cup {field}
             |-> IF f = field THEN value ELSE h[key][f]]
     ELSE h[k]]

\* a DEL that leaves the key in place
DEL_keeps_key(h, key) == h

\* DEL key
DEL(h, key) == [k \in DOMAIN h \ {key} |-> h[k]]

\* one field of HGET / HMGET: present or nil
HasField(h, key, field) == key \in DOMAIN h /\ field \in DOMAIN h[key]

NoRet == [op |-> "none"]
NoneStr == [some |-> FALSE, v |-> ""]
Tasks == 1 .. NumTasks
Idle == [op |-> "idle", id |-> 0]
NoHist == [member |-> "none", shard |-> "", seq |-> None]
NoState == [some |-> FALSE]

\* Cache::add_game: SADD and HSET shard_id in one atomic pipeline
AddGame(id, s) ==
  /\ game_set' = game_set \cup {sadd_member(id)}
  /\ hashes' = HSET(hashes, game_hash_key(id), GAME_HASH_SHARD_ID, s)
  /\ ret' = NoRet
  /\ hist' = [hist EXCEPT ![id] = [member |-> "add", shard |-> s, seq |-> None]]
  /\ UNCHANGED <<tpc, shard_hist>>
  /\ UNCHANGED fsvars

\* remove_game, first command: SREM alone
remove_srem_set(set, id) == set \ {srem_member(id)}

\* the pipeline of remove_game without its SREM
remove_pipe_set_del_only(set, id) == set

\* remove_game, the game set after the atomic pipeline of SREM and DEL
remove_pipe_set(set, id) == set \ {srem_member(id)}

\* Cache::remove_game run to completion: SREM, then SREM and DEL in one
\* atomic pipeline
RemoveGame(id) ==
  /\ game_set' = remove_pipe_set(remove_srem_set(game_set, id), id)
  /\ hashes' = DEL(hashes, game_hash_key(id))
  /\ ret' = NoRet
  /\ hist' = [hist EXCEPT ![id] = [member |-> "remove", shard |-> "", seq |-> None]]
  /\ UNCHANGED <<tpc, shard_hist>>
  /\ UNCHANGED fsvars

\* what list_games returns: the 4-byte members decoded, the others dropped
list_games ==
  {i32_from_le_bytes(b) : b \in {m \in game_set : Len(m) = 4}}

\* Cache::list_games
ListGames ==
  /\ ret' = [op |-> "list_games", val |-> list_games]
  /\ UNCHANGED <<game_set, hashes, hist>>
  /\ UNCHANGED <<tpc, shard_hist>>
  /\ UNCHANGED fsvars

\* Cache::set_game_finished_seq_id
SetGameFinishedSeqId(id, v) ==
  /\ hashes' = HSET(hashes, game_hash_key(id), GAME_HASH_FINISHED_SEQ_ID,
                    seq_value(v))
  /\ ret' = NoRet
  /\ hist' = [hist EXCEPT ![id].seq = Some(v)]
  /\ UNCHANGED game_set
  /\ UNCHANGED <<tpc, shard_hist>>
  /\ UNCHANGED fsvars

\* what get_game_state returns: Some only when shard_id is present and
\* finished_seq_id is present and 4 bytes long
get_game_state(id) ==
  LET key == game_hash_key(id)
  IN IF /\ HasField(hashes, key, GAME_HASH_SHARD_ID)
        /\ HasField(hashes, key, GAME_HASH_FINISHED_SEQ_ID)
        /\ Len(hashes[key][GAME_HASH_FINISHED_SEQ_ID]) = 4
     THEN [some |-> TRUE, id |-> id,
           shard_id |-> hashes[key][GAME_HASH_SHARD_ID],
           finished_seq_id |->
             u32_from_le_bytes(hashes[key][GAME_HASH_FINISHED_SEQ_ID])]
     ELSE NoState

\* Cache::get_game_state
GetGameState(id) ==
  /\ ret' = [op |-> "get_game_state", id |-> id, val |-> get_game_state(id)]
  /\ UNCHANGED <<game_set, hashes, hist>>
  /\ UNCHANGED <<tpc, shard_hist>>
  /\ UNCHANGED fsvars

SHARD_HASH_PREFIX == "flo_observer:shard"
SHARD_HASH_FINISHED_SEQ_NUMBER == "finished_seq_number"

\* the shard cursors the model draws from
SeqNumbers == {"123", "9"}

\* every shard under one key
shard_hash_key_shared(x) == <<SHARD_HASH_PREFIX, "">>

\* format!("{}:{}", SHARD_HASH_PREFIX, shard_id)
shard_hash_key(x) == <<SHARD_HASH_PREFIX, x>>

\* what get_shard_finished_seq returns: HGET of the field, or nil
get_shard_finished_seq(x) ==
  IF HasField(hashes, shard_hash_key(x), SHARD_HASH_FINISHED_SEQ_NUMBER)
  THEN Some(hashes[shard_hash_key(x)][SHARD_HASH_FINISHED_SEQ_NUMBER])
  ELSE NoneStr

\* Cache::get_shard_finished_seq
GetShardFinishedSeq(x) ==
  /\ ret' = [op |-> "get_shard_finished_seq", shard |-> x,
             val |-> get_shard_finished_seq(x)]
  /\ UNCHANGED <<game_set, hashes, hist, tpc, shard_hist>>
  /\ UNCHANGED fsvars

\* Cache::set_shard_finished_seq
SetShardFinishedSeq(x, v) ==
  /\ hashes' = HSET(hashes, shard_hash_key(x),
                    SHARD_HASH_FINISHED_SEQ_NUMBER, v)
  /\ ret' = NoRet
  /\ shard_hist' = [shard_hist EXCEPT ![x] = Some(v)]
  /\ UNCHANGED <<game_set, hist, tpc>>
  /\ UNCHANGED fsvars

CacheNext ==
  \/ \E id \in GameIds, s \in ShardIds : AddGame(id, s)
  \/ \E id \in GameIds : RemoveGame(id)
  \/ ListGames
  \/ \E id \in GameIds, v \in SeqIds : SetGameFinishedSeqId(id, v)
  \/ \E id \in GameIds : GetGameState(id)
  \/ \E x \in ShardIds : GetShardFinishedSeq(x)
  \/ \E x \in ShardIds, v \in SeqNumbers : SetShardFinishedSeq(x, v)

\* ------------------------------------------------------------------------
\* The cache shared by tasks: commands of different tasks interleave, and a
\* call may be dropped between two of its commands
\* ------------------------------------------------------------------------
TaskAddGame(t, id, s) ==
  /\ tpc[t] = Idle
  /\ AddGame(id, s)

\* remove_game up to its first await: SREM has been applied
TaskRemoveSrem(t, id) ==
  /\ tpc[t] = Idle
  /\ game_set' = remove_srem_set(game_set, id)
  /\ tpc' = [tpc EXCEPT ![t] = [op |-> "remove_game", id |-> id]]
  /\ ret' = NoRet
  /\ UNCHANGED <<hashes, hist, shard_hist>>
  /\ UNCHANGED fsvars

\* remove_game, its atomic pipeline: SREM and DEL
TaskRemovePipe(t) ==
  /\ tpc[t].op = "remove_game"
  /\ game_set' = remove_pipe_set(game_set, tpc[t].id)
  /\ hashes' = DEL(hashes, game_hash_key(tpc[t].id))
  /\ tpc' = [tpc EXCEPT ![t] = Idle]
  /\ ret' = NoRet
  /\ hist' = [hist EXCEPT ![tpc[t].id] =
                [member |-> "remove", shard |-> "", seq |-> None]]
  /\ UNCHANGED shard_hist
  /\ UNCHANGED fsvars

\* the remove_game future is dropped at its suspension point
TaskCancel(t) ==
  /\ tpc[t].op = "remove_game"
  /\ tpc' = [tpc EXCEPT ![t] = Idle]
  /\ UNCHANGED <<game_set, hashes, ret, hist, shard_hist>>
  /\ UNCHANGED fsvars

TaskSetGameFinishedSeqId(t, id, v) ==
  /\ tpc[t] = Idle
  /\ SetGameFinishedSeqId(id, v)

TaskGetGameState(t, id) ==
  /\ tpc[t] = Idle
  /\ GetGameState(id)

TaskListGames(t) ==
  /\ tpc[t] = Idle
  /\ ListGames

TaskNext ==
  \/ \E t \in Tasks, id \in GameIds, s \in ShardIds : TaskAddGame(t, id, s)
  \/ \E t \in Tasks, id \in GameIds : TaskRemoveSrem(t, id)
  \/ \E t \in Tasks : TaskRemovePipe(t)
  \/ \E t \in Tasks : TaskCancel(t)
  \/ \E t \in Tasks, id \in GameIds, v \in SeqIds :
        TaskSetGameFinishedSeqId(t, id, v)
  \/ \E t \in Tasks, id \in GameIds : TaskGetGameState(t, id)
  \/ \E t \in Tasks : TaskListGames(t)

\* ------------------------------------------------------------------------
\* GameDataWriter
\* ------------------------------------------------------------------------
Init ==
  /\ gid \in GameIds
  /\ dir_exists = FALSE
  /\ chunks = <<>>
  /\ tmp_chunk = NoFile
  /\ archive = NoFile
  /\ wpc = "none"
  /\ game_id = 0
  /\ chunk_id = 0
  /\ chunk_buf = <<>>
  /\ chunk_file = FALSE
  /\ ctx = NoCtx
  /\ nops = 0
  /\ ncrash = 0
  /\ origin = "none"
  /\ last = NoCall
  /\ written = <<>>
  /\ drop_chunks = <<>>
  /\ drop_archive = NoFile
  /\ pre = NoPre
  /\ fails = {}
  /\ drop_fails = {}
  /\ rstate = NoReader
  /\ rout = NoOutput
  /\ aret = NoOpen
  /\ game_set = {}
  /\ hashes = <<>>
  /\ ret = NoRet
  /\ hist = [id \in GameIds |-> NoHist]
  /\ tpc = [t \in Tasks |-> Idle]
  /\ shard_hist = [x \in ShardIds |-> NoneStr]

Done(op, ok) == [op |-> op, ok |-> ok]

\* GameDataWriter::create: the directory is made, _chunk is truncated,
\* chunk files already in the directory are left alone
Create ==
  /\ wpc = "none"
  /\ dir_exists' = TRUE
  /\ tmp_chunk' = File(<<>>)
  /\ game_id' = gid
  /\ chunk_id' = 0
  /\ chunk_buf' = <<>>
  /\ chunk_file' = TRUE
  /\ wpc' = "idle"
  /\ origin' = "create"
  /\ last' = Done("create", TRUE)
  /\ written' = <<>>
  /\ fails' = {}
  /\ UNCHANGED <<drop_fails, pre>>
  /\ UNCHANGED <<cachevars, sidevars>>
  /\ UNCHANGED <<gid, chunks, archive, ctx, nops, ncrash, drop_chunks,
                 drop_archive>>

\* GameDataWriter::recover: fails when the directory cannot be read
Recover ==
  /\ wpc = "none"
  /\ LET r == GameDataReader_open
     IN /\ r.ok
        /\ tmp_chunk' = File(<<>>)
        /\ game_id' = gid
        /\ chunk_id' = r.next_chunk_id
  /\ chunk_buf' = <<>>
  /\ chunk_file' = TRUE
  /\ wpc' = "idle"
  /\ origin' = "recover"
  /\ last' = Done("recover", TRUE)
  /\ written' = <<>>
  /\ fails' = {}
  /\ UNCHANGED <<drop_fails, pre>>
  /\ UNCHANGED <<cachevars, sidevars>>
  /\ UNCHANGED <<gid, dir_exists, chunks, archive, ctx, nops, ncrash,
                 drop_chunks, drop_archive>>

\* the promotion test without the size of the incoming bytes
need_flush_ignores_size(buf_len, s) == buf_len > MAX_CHUNK_SIZE

\* the condition under which a write first promotes the buffer
need_flush(buf_len, s) == buf_len + s > MAX_CHUNK_SIZE

\* flush_chunk from its call to its first await: the handle is taken
flush_chunk_enter(op, data, recs) ==
  /\ chunk_file
  /\ chunk_file' = FALSE
  /\ wpc' = "flush_write"
  /\ ctx' = [op |-> op, data |-> data, recs |-> recs]
  /\ pre' = [chunk_id |-> chunk_id, chunk_buf |-> chunk_buf, chunks |-> chunks]

\* the bytes are appended to the buffer and the call returns
write_append(op, data, recs) ==
  /\ chunk_buf' = chunk_buf \o data
  /\ written' = written \o recs
  /\ last' = Done(op, TRUE)

write(op, data, recs) ==
  /\ wpc = "idle"
  /\ nops < MaxOps
  /\ nops' = nops + 1
  /\ IF need_flush(Len(chunk_buf), Len(data))
     THEN /\ flush_chunk_enter(op, data, recs)
          /\ UNCHANGED <<chunk_buf, written, last>>
     ELSE /\ write_append(op, data, recs)
          /\ UNCHANGED <<wpc, chunk_file, ctx, pre>>
  /\ UNCHANGED <<fails, drop_fails>>
  /\ UNCHANGED <<cachevars, sidevars>>
  /\ UNCHANGED <<gid, dir_exists, chunks, tmp_chunk, archive, game_id,
                 chunk_id, ncrash, origin, drop_chunks, drop_archive>>

\* GameDataWriter::write_record
WriteRecord(i) ==
  /\ encode_len(Rec(i)) <= MAX_CHUNK_SIZE
  /\ write("write_record", EncodedTable[i], <<i>>)

\* the slices write_bytes is called with: whole records, at most 4096 bytes
BytesInputs == {<<>>, <<1, 2>>}

\* GameDataWriter::write_bytes
WriteBytes(ids) ==
  /\ Len(EncodeAll(ids)) <= MAX_CHUNK_SIZE
  /\ write("write_bytes", EncodeAll(ids), ids)

\* GameDataWriter::sync_all
SyncAll ==
  /\ wpc = "idle"
  /\ nops < MaxOps
  /\ nops' = nops + 1
  /\ IF chunk_buf = <<>>
     THEN /\ last' = Done("sync_all", TRUE)
          /\ UNCHANGED <<wpc, chunk_file, ctx, pre>>
     ELSE /\ flush_chunk_enter("sync_all", <<>>, <<>>)
          /\ UNCHANGED last
  /\ UNCHANGED <<fails, drop_fails>>
  /\ UNCHANGED <<cachevars, sidevars>>
  /\ UNCHANGED <<gid, dir_exists, chunks, tmp_chunk, archive, game_id,
                 chunk_id, chunk_buf, ncrash, origin, written, drop_chunks,
                 drop_archive>>

\* GameDataWriter::build_archive up to its first await
BuildArchive ==
  /\ wpc = "idle"
  /\ nops < MaxOps
  /\ nops' = nops + 1
  /\ IF chunk_buf = <<>>
     THEN /\ wpc' = "archive"
          /\ ctx' = [op |-> "build_archive", data |-> <<>>, recs |-> <<>>]
          /\ UNCHANGED <<chunk_file, pre>>
     ELSE flush_chunk_enter("build_archive", <<>>, <<>>)
  /\ UNCHANGED <<fails, drop_fails>>
  /\ UNCHANGED <<cachevars, sidevars>>
  /\ UNCHANGED <<gid, dir_exists, chunks, tmp_chunk, archive, game_id,
                 chunk_id, chunk_buf, ncrash, origin, last, written,
                 drop_chunks, drop_archive>>

\* flush_chunk without chunk_buf.clear()
FlushWrite_keeps_buf ==
  /\ wpc = "flush_write"
  /\ tmp_chunk' = File(tmp_chunk.data \o chunk_buf)
  /\ wpc' = "flush_sync"
  /\ UNCHANGED <<fails, drop_fails, pre>>
  /\ UNCHANGED <<cachevars, sidevars>>
  /\ UNCHANGED <<gid, dir_exists, chunks, archive, game_id, chunk_id,
                 chunk_buf, chunk_file, ctx, nops, ncrash, origin, last,
                 written, drop_chunks, drop_archive>>

\* flush_chunk: write_all of the buffer to _chunk, then the buffer is cleared
FlushWrite ==
  /\ wpc = "flush_write"
  /\ tmp_chunk' = File(tmp_chunk.data \o chunk_buf)
  /\ chunk_buf' = <<>>
  /\ wpc' = "flush_sync"
  /\ UNCHANGED <<fails, drop_fails, pre>>
  /\ UNCHANGED <<cachevars, sidevars>>
  /\ UNCHANGED <<gid, dir_exists, chunks, archive, game_id, chunk_id,
                 chunk_file, ctx, nops, ncrash, origin, last, written,
                 drop_chunks, drop_archive>>

\* flush_chunk: sync_all of _chunk; the handle is dropped
FlushSync ==
  /\ wpc = "flush_sync"
  /\ wpc' = "flush_rename"
  /\ UNCHANGED <<fails, drop_fails, pre>>
  /\ UNCHANGED <<cachevars, sidevars>>
  /\ UNCHANGED <<gid, dir_exists, chunks, tmp_chunk, archive, game_id,
                 chunk_id, chunk_buf, chunk_file, ctx, nops, ncrash, origin,
                 last, written, drop_chunks, drop_archive>>

\* the directory after rename(_chunk, chunk_<id>)
renamed(id) ==
  [n \in DOMAIN chunks \cup {id} |->
     IF n = id THEN tmp_chunk.data ELSE chunks[n]]

\* flush_chunk: rename of _chunk to chunk_<chunk_id>, then chunk_id += 1
FlushRename ==
  /\ wpc = "flush_rename"
  /\ tmp_chunk.exists
  /\ chunks' = renamed(chunk_id)
  /\ tmp_chunk' = NoFile
  /\ chunk_id' = chunk_id + 1
  /\ wpc' = "flush_create"
  /\ UNCHANGED <<fails, drop_fails, pre>>
  /\ UNCHANGED <<cachevars, sidevars>>
  /\ UNCHANGED <<gid, dir_exists, archive, game_id, chunk_buf, chunk_file,
                 ctx, nops, ncrash, origin, last, written, drop_chunks,
                 drop_archive>>

\* flush_chunk: _chunk is created again, then the caller continues up to
\* its next await (a write appends its bytes and returns)
FlushCreate ==
  /\ wpc = "flush_create"
  /\ tmp_chunk' = File(<<>>)
  /\ chunk_file' = TRUE
  /\ IF ctx.op = "build_archive"
     THEN /\ wpc' = "archive"
          /\ UNCHANGED <<ctx, chunk_buf, written, last, pre>>
     ELSE /\ wpc' = "idle"
          /\ ctx' = NoCtx
          /\ pre' = NoPre
          /\ write_append(ctx.op, ctx.data, ctx.recs)
  /\ UNCHANGED <<fails, drop_fails>>
  /\ UNCHANGED <<cachevars, sidevars>>
  /\ UNCHANGED <<gid, dir_exists, chunks, archive, game_id, chunk_id, nops,
                 ncrash, origin, drop_chunks, drop_archive>>

RECURSIVE concat_files(_, _, _)
\* the bytes of the files lo .. hi-1 of f, in id order
concat_files(f, lo, hi) ==
  IF lo >= hi THEN <<>> ELSE f[lo] \o concat_files(f, lo + 1, hi)

\* the bytes of chunk_<lo> .. chunk_<hi-1>, in id order
concat_chunks(lo, hi) == concat_files(chunks, lo, hi)

\* the chunk ids build_archive copies: 0..chunk_id-1
archive_ids == 0 .. (chunk_id - 1)

\* build_archive with its loop starting at chunk 1
archive_plain_skip_first ==
  LET missing == (1 .. (chunk_id - 1)) \ DOMAIN chunks
      stop == IF missing = {} THEN chunk_id ELSE SetMin(missing)
  IN FileHeader_bytes(FileHeader_new(game_id)) \o concat_chunks(1, stop)

\* the plaintext build_archive hands to the encoder: the header, then the
\* chunks in id order up to the first one that does not open
archive_plain ==
  LET missing == archive_ids \ DOMAIN chunks
      stop == IF missing = {} THEN chunk_id ELSE SetMin(missing)
  IN FileHeader_bytes(FileHeader_new(game_id)) \o concat_chunks(0, stop)

\* build_archive: the blocking closure that writes archive.gz
ArchiveWrite ==
  /\ wpc = "archive"
  /\ archive' = File(GzEncode(archive_plain))
  /\ last' = Done("build_archive", archive_ids \subseteq DOMAIN chunks)
  /\ wpc' = "idle"
  /\ ctx' = NoCtx
  /\ UNCHANGED <<fails, drop_fails>>
  /\ pre' = NoPre
  /\ UNCHANGED <<cachevars, sidevars>>
  /\ UNCHANGED <<gid, dir_exists, chunks, tmp_chunk, game_id, chunk_id,
                 chunk_buf, chunk_file, nops, ncrash, origin, written,
                 drop_chunks, drop_archive>>

\* the writer has just returned Ok from build_archive
Finalized ==
  /\ wpc = "idle"
  /\ last = Done("build_archive", TRUE)

\* the writer is dropped, or the process stops, at any await point; the
\* files stay as they are
Crash ==
  /\ wpc # "none"
  /\ ncrash < MaxCrashes
  /\ ncrash' = ncrash + 1
  /\ wpc' = "none"
  /\ game_id' = 0
  /\ chunk_id' = 0
  /\ chunk_buf' = <<>>
  /\ chunk_file' = FALSE
  /\ ctx' = NoCtx
  /\ origin' = "none"
  /\ last' = NoCall
  /\ written' = <<>>
  /\ drop_chunks' = chunks
  /\ drop_archive' = IF Finalized THEN archive ELSE NoFile
  /\ drop_fails' = fails
  /\ fails' = {}
  /\ pre' = NoPre
  /\ UNCHANGED <<cachevars, sidevars>>
  /\ UNCHANGED <<gid, dir_exists, chunks, tmp_chunk, archive, nops>>

Next ==
  \/ Create
  \/ Recover
  \/ \E i \in RecordIds : WriteRecord(i)
  \/ \E ids \in BytesInputs : WriteBytes(ids)
  \/ SyncAll
  \/ BuildArchive
  \/ FlushWrite
  \/ FlushSync
  \/ FlushRename
  \/ FlushCreate
  \/ ArchiveWrite
  \/ Crash

Spec == Init /\ [][Next]_vars

\* ------------------------------------------------------------------------
\* GameDataWriter when a file operation returns an error
\* ------------------------------------------------------------------------
\* the ? of a failing step: the call returns Err to its caller, the writer
\* stays as the step left it, and the handle taken by flush_chunk is gone
fail_return(step) ==
  /\ Cardinality(fails) < MaxFails
  /\ fails' = fails \cup {<<ctx.op, step>>}
  /\ last' = Done(ctx.op, FALSE)
  /\ wpc' = "idle"
  /\ ctx' = NoCtx
  /\ pre' = NoPre
  /\ UNCHANGED drop_fails
  /\ UNCHANGED <<cachevars, sidevars>>
  /\ UNCHANGED <<gid, dir_exists, game_id, chunk_file, nops, ncrash, origin,
                 written, drop_chunks, drop_archive>>

\* the lengths write_all may have written when it fails
PartialWrites(n) == {0, n \div 2}

\* flush_chunk: write_all fails; the buffer is not cleared
FailWrite ==
  /\ wpc = "flush_write"
  /\ \E n \in PartialWrites(Len(chunk_buf)) :
       tmp_chunk' = File(tmp_chunk.data \o SubSeq(chunk_buf, 1, n))
  /\ fail_return("write_all")
  /\ UNCHANGED <<chunks, archive, chunk_id, chunk_buf>>

\* flush_chunk: sync_all of _chunk fails, after the buffer was cleared
FailSync ==
  /\ wpc = "flush_sync"
  /\ fail_return("sync_all")
  /\ UNCHANGED <<chunks, tmp_chunk, archive, chunk_id, chunk_buf>>

\* flush_chunk: the rename fails; chunk_id is not incremented
FailRename ==
  /\ wpc = "flush_rename"
  /\ fail_return("rename")
  /\ UNCHANGED <<chunks, tmp_chunk, archive, chunk_id, chunk_buf>>

\* flush_chunk: File::create of the next _chunk fails, after the rename and
\* the increment
FailCreate ==
  /\ wpc = "flush_create"
  /\ fail_return("create")
  /\ UNCHANGED <<chunks, tmp_chunk, archive, chunk_id, chunk_buf>>

\* build_archive: the closure fails at File::create, or later with
\* archive.gz created and nothing flushed to it
FailArchive ==
  /\ wpc = "archive"
  /\ archive' \in {archive, File(<<>>)}
  /\ fail_return("archive")
  /\ UNCHANGED <<chunks, tmp_chunk, chunk_id, chunk_buf>>

\* sync_all or build_archive on a writer whose handle is gone: flush_chunk
\* unwraps None and panics, and the writer is dropped by the unwinding
UnwrapNone ==
  /\ wpc = "idle"
  /\ nops < MaxOps
  /\ ncrash < MaxCrashes
  /\ chunk_buf # <<>>
  /\ ~chunk_file
  /\ nops' = nops + 1
  /\ ncrash' = ncrash + 1
  /\ wpc' = "none"
  /\ game_id' = 0
  /\ chunk_id' = 0
  /\ chunk_buf' = <<>>
  /\ origin' = "none"
  /\ last' = Done("panic", FALSE)
  /\ written' = <<>>
  /\ drop_chunks' = chunks
  /\ drop_archive' = NoFile
  /\ drop_fails' = fails
  /\ fails' = {}
  /\ UNCHANGED <<cachevars, sidevars>>
  /\ UNCHANGED <<gid, dir_exists, chunks, tmp_chunk, archive, chunk_file,
                 ctx, pre>>

FailNext ==
  \/ Create
  \/ Recover
  \/ \E i \in RecordIds : WriteRecord(i)
  \/ \E ids \in BytesInputs : WriteBytes(ids)
  \/ SyncAll
  \/ BuildArchive
  \/ FlushWrite
  \/ FlushSync
  \/ FlushRename
  \/ FlushCreate
  \/ ArchiveWrite
  \/ Crash
  \/ FailWrite
  \/ FailSync
  \/ FailRename
  \/ FailCreate
  \/ FailArchive
  \/ UnwrapNone

\* the writer with failing file operations
FailSpec == Init /\ [][FailNext]_vars

\* ------------------------------------------------------------------------
\* GameDataArchiveReader::open on the files it can be given
\* ------------------------------------------------------------------------
\* what the actions on archive.gz leave alone
archive_frame ==
  /\ UNCHANGED <<cachevars, rstate, rout>>
  /\ UNCHANGED <<gid, dir_exists, chunks, tmp_chunk, wpc, game_id, chunk_id,
                 chunk_buf, chunk_file, ctx, nops, ncrash, origin, last,
                 written, drop_chunks, drop_archive, pre, fails, drop_fails>>

\* the record sequences of the stored archives
ArchiveInputs == {<<>>, <<1>>, <<1, 1>>}

\* the plaintext lengths an archive is cut to
MaxCut == 9

\* an archive as build_archive writes it: the header, then the records
StoreArchive(ids) ==
  /\ archive' =
       File(GzEncode(FileHeader_bytes(FileHeader_new(gid)) \o EncodeAll(ids)))
  /\ aret' = NoOpen
  /\ archive_frame

\* the byte with its lowest bit flipped
flip(b) == IF b % 2 = 0 THEN b + 1 ELSE b - 1

\* byte i of the plaintext signature is flipped
TamperSignature(i) ==
  /\ archive.exists
  /\ LET plain == GzDecode(archive.data).plain
     IN /\ i <= Len(plain)
        /\ archive' = File(GzEncode([plain EXCEPT ![i] = flip(plain[i])]))
  /\ aret' = NoOpen
  /\ archive_frame

\* the plaintext is cut to its first n bytes
TruncatePlain(n) ==
  /\ archive.exists
  /\ LET plain == GzDecode(archive.data).plain
     IN /\ n < Len(plain)
        /\ archive' = File(GzEncode(SubSeq(plain, 1, n)))
  /\ aret' = NoOpen
  /\ archive_frame

\* GameDataArchiveReader::open(archive.gz)
OpenArchive ==
  /\ LET a == GameDataArchiveReader_open(archive)
     IN aret' = [op |-> "open", ok |-> a.ok, err |-> a.err]
  /\ UNCHANGED archive
  /\ archive_frame

ArchiveNext ==
  \/ \E ids \in ArchiveInputs : StoreArchive(ids)
  \/ \E i \in 1 .. Len(SIGNATURE) : TamperSignature(i)
  \/ \E n \in 0 .. MaxCut : TruncatePlain(n)
  \/ OpenArchive

ArchiveSpec == Init /\ [][ArchiveNext]_vars

\* ------------------------------------------------------------------------
\* A GameDataReader drained while the writer runs
\* ------------------------------------------------------------------------
\* what the reader's steps leave alone
reader_frame ==
  /\ UNCHANGED <<cachevars, aret>>
  /\ UNCHANGED <<gid, dir_exists, chunks, tmp_chunk, archive, wpc, game_id,
                 chunk_id, chunk_buf, chunk_file, ctx, nops, ncrash, origin,
                 last, written, drop_chunks, drop_archive, pre, fails,
                 drop_fails>>

\* GameDataReader::open(g).records(), at any await point of the writer
ReaderOpen ==
  /\ rstate = NoReader
  /\ LET r == GameDataReader_open
     IN /\ r.ok
        /\ rstate' = GameDataReader_records(r)
  /\ rout' = NoOutput
  /\ reader_frame

\* one call of next() by the loop of collect_vec
ReaderStep ==
  /\ rstate.inner = "Chunks"
  /\ ~rout.done
  /\ LET n == next(rstate)
     IN /\ rstate' = n.rs
        /\ rout' = IF ~n.ok
                   THEN [rout EXCEPT !.done = TRUE, !.ok = FALSE,
                                     !.err = n.err]
                   ELSE IF ~n.some
                   THEN [rout EXCEPT !.done = TRUE]
                   ELSE [rout EXCEPT !.recs = Append(rout.recs, n.record)]
  /\ reader_frame

ReaderNext ==
  \/ Create
  \/ \E i \in RecordIds : WriteRecord(i)
  \/ \E ids \in BytesInputs : WriteBytes(ids)
  \/ SyncAll
  \/ BuildArchive
  \/ FlushWrite
  \/ FlushSync
  \/ FlushRename
  \/ FlushCreate
  \/ ArchiveWrite
  \/ ReaderOpen
  \/ ReaderStep

\* one writer from create and one reader, step by step
ReaderSpec == Init /\ [][ReaderNext]_vars

\* the cache operations, each call run to completion before the next
CacheSpec == Init /\ [][CacheNext]_vars

\* the cache operations issued by concurrent tasks, command by command
TaskSpec == Init /\ [][TaskNext]_vars

\* ------------------------------------------------------------------------
\* Properties of the chunk log and the archive
\* ------------------------------------------------------------------------
Ok(records) == [ok |-> TRUE, err |-> "", records |-> records]

\* GameDataReader::open(g).records().collect_vec() on the directory as it is
ReaderResult ==
  LET r == GameDataReader_open
  IN IF ~r.ok THEN [ok |-> FALSE, err |-> r.err, records |-> <<>>]
     ELSE collect_vec(GameDataReader_records(r))

\* GameDataArchiveReader::open(archive.gz).records().collect_vec()
ArchiveResult ==
  LET a == GameDataArchiveReader_open(archive)
  IN IF ~a.ok THEN [ok |-> FALSE, err |-> a.err, records |-> <<>>]
     ELSE collect_vec(GameDataArchiveReader_records(a))

\* the bytes are a whole number of record encodings
WholeRecords(bytes) ==
  collect_vec([inner |-> "Content", next_chunk_id |-> 0,
               current_chunk |-> Some(0), chunk_buf |-> Cursor(bytes)]).ok

RECURSIVE ConcatAll(_)
\* the files of f concatenated in id order, whatever their ids
ConcatAll(f) ==
  IF DOMAIN f = {} THEN <<>>
  ELSE LET m == SetMin(DOMAIN f)
       IN f[m] \o ConcatAll([n \in DOMAIN f \ {m} |-> f[n]])

\* C1: after create, writes and a successful build_archive, the chunk log
\* reader yields exactly the written records in write order, then ends.
C1_ReaderYieldsWritten ==
  (Finalized /\ origin = "create") => ReaderResult = Ok(RecsOf(written))

\* C2: after create, writes and a successful build_archive, the archive
\* opens, carries the writer's game id, yields exactly the written records
\* in write order, and its plaintext is the header followed by
\* chunk_0 .. chunk_{chunk_id-1}.
C2_ArchiveYieldsWritten ==
  (Finalized /\ origin = "create") =>
    LET a == GameDataArchiveReader_open(archive)
    IN /\ a.ok
       /\ GameDataArchiveReader_game_id(a) = gid
       /\ ArchiveResult = Ok(RecsOf(written))
       /\ GzDecode(archive.data).plain =
            FileHeader_bytes(FileHeader_new(gid)) \o concat_chunks(0, chunk_id)

\* a writer from create has built an archive of at least two records that
\* span at least two promoted chunks
C2_Witness ==
  /\ Finalized
  /\ origin = "create"
  /\ Len(written) >= 2
  /\ chunk_id >= 2

\* C3: immediately after a successful build_archive the chunk log reader
\* and the archive reader yield the same sequence of records.
C3_ReadersAgree ==
  Finalized => (ReaderResult.ok /\ ArchiveResult.ok
                /\ ReaderResult.records = ArchiveResult.records)

\* C4: the buffer never holds more than 4096 bytes, and every promoted
\* chunk is at most 4096 bytes and a whole number of record encodings.
C4_ChunkBounds ==
  /\ Len(chunk_buf) <= MAX_CHUNK_SIZE
  /\ \A n \in DOMAIN chunks :
        /\ Len(chunks[n]) <= MAX_CHUNK_SIZE
        /\ WholeRecords(chunks[n])

\* a write has promoted a partly filled buffer because its bytes did not
\* fit, next to a chunk of exactly 4096 bytes
C4_Witness ==
  /\ wpc = "idle"
  /\ origin = "create"
  /\ last.op \in {"write_record", "write_bytes"}
  /\ chunk_buf # <<>>
  /\ \E n \in DOMAIN chunks : Len(chunks[n]) = MAX_CHUNK_SIZE
  /\ \E n \in DOMAIN chunks :
        Len(chunks[n]) > 0 /\ Len(chunks[n]) < MAX_CHUNK_SIZE

\* C5: the promoted chunk files have ids exactly 0..max, with no gaps.
C5_NoGaps ==
  DOMAIN chunks = 0 .. (Cardinality(DOMAIN chunks) - 1)

\* C6: recover returns a writer whose chunk_id is max(existing ids)+1, or 0
\* when no chunk exists, with an empty buffer and an empty _chunk.
C6_RecoverChunkId ==
  (wpc = "idle" /\ last.op = "recover") =>
    /\ chunk_id = IF DOMAIN chunks = {} THEN 0
                  ELSE SetMax(DOMAIN chunks) + 1
    /\ chunk_id = Cardinality(DOMAIN chunks)
    /\ chunk_buf = <<>>
    /\ tmp_chunk = File(<<>>)

\* C7: after a drop, recover followed by build_archive succeeds and the
\* archive plaintext is the header followed by exactly the chunks promoted
\* before the drop; it equals the archive the dropped writer had built.
C7_RecoverRebuild ==
  (wpc = "idle" /\ origin = "recover" /\ written = <<>>
     /\ last.op = "build_archive") =>
    /\ last.ok
    /\ GzDecode(archive.data).plain =
         FileHeader_bytes(FileHeader_new(gid)) \o ConcatAll(drop_chunks)
    /\ drop_archive.exists => archive = drop_archive

\* ------------------------------------------------------------------------
\* Properties of the progress cache
\* ------------------------------------------------------------------------
\* C8: list_games returns exactly the game ids whose most recent call
\* among add_game and remove_game was add_game.
C8_ListGamesMembership ==
  /\ list_games = {id \in GameIds : hist[id].member = "add"}
  /\ ret.op = "list_games" =>
       ret.val = {id \in GameIds : hist[id].member = "add"}

\* list_games has returned a list with one game while another game had
\* been added and then removed
C8_Witness ==
  /\ ret.op = "list_games"
  /\ \E id \in GameIds : hist[id].member = "add" /\ id \in ret.val
  /\ \E id \in GameIds : hist[id].member = "remove" /\ id \notin ret.val

\* the state get_game_state must return for a game added with a shard and
\* then given a finished_seq_id
Expected(id) ==
  [some |-> TRUE, id |-> id, shard_id |-> hist[id].shard,
   finished_seq_id |-> hist[id].seq.v]

\* C9: after add_game(id, s) and then set_game_finished_seq_id(id, v),
\* get_game_state(id) returns Some{id, s, v} for the latest v.
C9_GetAfterAddSet ==
  \A id \in GameIds :
    (hist[id].member = "add" /\ hist[id].seq.some) =>
      /\ get_game_state(id) = Expected(id)
      /\ (ret.op = "get_game_state" /\ ret.id = id) => ret.val = Expected(id)

\* get_game_state has returned Some for a game that was added and then
\* given a finished_seq_id
C9_Witness ==
  /\ ret.op = "get_game_state"
  /\ hist[ret.id].member = "add"
  /\ hist[ret.id].seq.some
  /\ ret.val.some

\* C10: between add_game(id, s) and the next set_game_finished_seq_id(id, _)
\* get_game_state(id) returns None, whatever happened before the add_game.
C10_NoneBeforeSet ==
  \A id \in GameIds :
    (hist[id].member = "add" /\ ~hist[id].seq.some) =>
      /\ ~get_game_state(id).some
      /\ (ret.op = "get_game_state" /\ ret.id = id) => ~ret.val.some

\* C11: remove_game takes effect as one atomic step: no state shows a game
\* missing from list_games while its hash (with shard_id) still exists.
C11_RemoveAtomic ==
  \A id \in GameIds :
    HasField(hashes, game_hash_key(id), GAME_HASH_SHARD_ID) =>
      id \in list_games

\* the store without the hash of shard x
Others(h, x) == [k \in DOMAIN h \ {shard_hash_key(x)} |-> h[k]]

\* a step that changes the cursor of shard x changes nothing else
ShardFrame ==
  \A x \in ShardIds :
    get_shard_finished_seq(x)' # get_shard_finished_seq(x) =>
      /\ game_set' = game_set
      /\ Others(hashes', x) = Others(hashes, x)

\* C12: get_shard_finished_seq(x) is None until the first
\* set_shard_finished_seq(x, _) and then Some of the latest value; setting
\* the cursor of x changes no other shard, nor the game set or a game hash.
C12_ShardCursor ==
  /\ [](\A x \in ShardIds :
          /\ get_shard_finished_seq(x) = shard_hist[x]
          /\ (ret.op = "get_shard_finished_seq" /\ ret.shard = x) =>
               ret.val = shard_hist[x])
  /\ [][ShardFrame]_vars

\* a cursor has been read back while another shard has none and games with
\* hashes are in the cache
C12_Witness ==
  /\ ret.op = "get_shard_finished_seq"
  /\ ret.val.some
  /\ \E y \in ShardIds : ~shard_hist[y].some
  /\ game_set # {}
  /\ \E id \in GameIds : get_game_state(id).some

\* C20: whenever a game id is a member of the game set, its hash exists and
\* has a shard_id field, under every interleaving of the tasks' commands.
C20_MemberHasShard ==
  \A id \in GameIds :
    id \in list_games =>
      HasField(hashes, game_hash_key(id), GAME_HASH_SHARD_ID)

\* a task is between the two commands of remove_game for a game that
\* another task has added again in the meantime
C20_Witness ==
  \E t \in Tasks :
    /\ tpc[t].op = "remove_game"
    /\ tpc[t].id \in list_games
    /\ get_game_state(tpc[t].id).some

\* C13: on a game directory that holds no promoted chunk (empty, or only
\* _chunk), GameDataReader::open(g).records() yields an empty stream: the
\* first next() returns Ok(None) and no error.
C13_EmptyDirEmptyStream ==
  (dir_exists /\ DOMAIN chunks = {}) =>
    /\ GameDataReader_open.ok
    /\ LET n == next(GameDataReader_records(GameDataReader_open))
       IN n.ok /\ ~n.some

\* the step is a call of sync_all, up to its return or its first await
SyncAllCall ==
  /\ wpc = "idle"
  /\ nops' = nops + 1
  /\ \/ wpc' = "idle" /\ last' = Done("sync_all", TRUE) /\ ctx' = NoCtx
     \/ wpc' = "flush_write" /\ ctx'.op = "sync_all"

\* the step is the return of a sync_all that promoted
SyncAllReturn ==
  /\ wpc = "flush_create"
  /\ ctx.op = "sync_all"
  /\ wpc' = "idle"

\* the directory with chunk_<id> holding the bytes
Promoted(f, id, bytes) ==
  [n \in DOMAIN f \cup {id} |-> IF n = id THEN bytes ELSE f[n]]

\* the records of this writer are the tail of the promoted chunks
WrittenPromoted ==
  \E lo \in 0 .. chunk_id :
    /\ lo .. (chunk_id - 1) \subseteq DOMAIN chunks
    /\ concat_chunks(lo, chunk_id) = EncodeAll(written)

\* C15: sync_all with an empty buffer changes neither chunk_id nor the chunk
\* files nor _chunk; with a non-empty buffer it promotes exactly one chunk
\* holding exactly the buffered bytes, adds 1 to chunk_id and leaves the
\* buffer empty; a sync_all right after a sync_all changes nothing; after a
\* sync_all has returned Ok every record written so far is in a promoted
\* chunk.
C15_SyncAll ==
  /\ []((wpc = "idle" /\ last = Done("sync_all", TRUE)) =>
          /\ chunk_buf = <<>>
          /\ tmp_chunk = File(<<>>)
          /\ WrittenPromoted)
  /\ [][SyncAllCall =>
          IF chunk_buf = <<>>
          THEN /\ wpc' = "idle"
               /\ UNCHANGED <<chunk_id, chunks, tmp_chunk, chunk_buf>>
          ELSE /\ wpc' = "flush_write"
               /\ last # Done("sync_all", TRUE)]_vars
  /\ [][SyncAllReturn =>
          /\ pre.chunk_buf # <<>>
          /\ chunks' = Promoted(pre.chunks, pre.chunk_id, pre.chunk_buf)
          /\ chunk_id' = pre.chunk_id + 1
          /\ chunk_buf' = <<>>
          /\ tmp_chunk' = File(<<>>)
          /\ last' = Done("sync_all", TRUE)]_vars

\* a sync_all has promoted the records written before it
C15_Witness ==
  /\ wpc = "idle"
  /\ last = Done("sync_all", TRUE)
  /\ written # <<>>
  /\ chunk_id - 1 \in DOMAIN chunks
  /\ chunks[chunk_id - 1] # <<>>

\* the steps of flush_chunk
PromotionSteps == {"write_all", "sync_all", "rename", "create"}

\* the chunk_id a writer resumes at: one past the highest promoted chunk
ResumeId == IF DOMAIN chunks = {} THEN 0 ELSE SetMax(DOMAIN chunks) + 1

\* C16: after a promotion has failed at one of its steps and the writer was
\* dropped, recover(g) succeeds, and the recovered chunk_id is one past the
\* highest promoted chunk with the chunk ids gap-free.
C16_FailedPromotionRecovers ==
  /\ (wpc = "none" /\ \E f \in drop_fails : f[2] \in PromotionSteps) =>
       GameDataReader_open.ok
  /\ (/\ wpc = "idle"
      /\ last = Done("recover", TRUE)
      /\ \E f \in drop_fails : f[2] \in PromotionSteps) =>
       /\ chunk_id = ResumeId
       /\ DOMAIN chunks = 0 .. (chunk_id - 1)

\* C17: between two calls of a GameDataWriter, whether the last one returned
\* Ok or Err, chunk_file is Some.
C17_HandleHeld == (wpc = "idle") => chunk_file

\* C18: after a build_archive has failed, the chunk files promoted before it
\* are as they were, and a retried build_archive that returns Ok has written
\* an archive that yields every record accepted so far.
C18_ArchiveRetry ==
  (/\ Finalized
   /\ origin = "create"
   /\ fails # {}
   /\ \A f \in fails : f[1] = "build_archive") =>
     ArchiveResult = Ok(RecsOf(written))

\* C19: GameDataArchiveReader::open fails with DecodeArchiveHeader, and
\* returns no reader, both when the first 4 plaintext bytes differ from the
\* signature and when the plaintext has fewer than 8 bytes.
C19_BadHeaderKind ==
  (aret.op = "open" /\ archive.exists /\ GzDecode(archive.data).ok) =>
    LET plain == GzDecode(archive.data).plain
    IN (\/ Len(plain) >= 4 /\ SubSeq(plain, 1, 4) # SIGNATURE
        \/ Len(plain) < MIN_SIZE) =>
         /\ ~aret.ok
         /\ aret.err = "DecodeArchiveHeader"

\* a is a prefix of b
IsPrefix(a, b) == Len(a) <= Len(b) /\ a = SubSeq(b, 1, Len(a))

\* C14: a GameDataReader opened and drained while the writer writes and
\* promotes ends without error, and what it yields is a prefix of the
\* writer's records that lies wholly in promoted chunks.
C14_ConcurrentReader ==
  /\ rout.ok
  /\ IsPrefix(rout.recs, RecsOf(written))
  /\ Len(rout.recs) <= Len(RecsOf(written)) =>
       IsPrefix(EncodeAll(SubSeq(written, 1, Len(rout.recs))),
                ConcatAll(chunks))

\* C21: from the completion of remove_game(id) until the next
\* add_game(id, _), get_game_state(id) returns None whatever else is called
\* in between, set_game_finished_seq_id(id, _) included; and the hash of the
\* game is gone when remove_game completes (no key until something is set).
C21_RemovedStaysNone ==
  \A id \in GameIds :
    hist[id].member = "remove" =>
      /\ ~get_game_state(id).some
      /\ (ret.op = "get_game_state" /\ ret.id = id) => ~ret.val.some
      /\ ~hist[id].seq.some => game_hash_key(id) \notin DOMAIN hashes

\* after a remove_game, a finished_seq_id was set for the game and
\* get_game_state was called on it
C21_Witness ==
  /\ ret.op = "get_game_state"
  /\ hist[ret.id].member = "remove"
  /\ hist[ret.id].seq.some
  /\ HasField(hashes, game_hash_key(ret.id), GAME_HASH_FINISHED_SEQ_ID)

====
